---- MODULE Spec2Model ----
(***************************************************************************)
(* Bakery availability services: the keyword resolver of                  *)
(* bakery_api_simplified.py (POST /check, GET /check), the item lookup of *)
(* app.py (GET /check), and of bakery_api_with_mcp.py the direct          *)
(* responder (GET /bakery-response), lifespan() and the MCP endpoints      *)
(* (POST /check, GET /check).                                              *)
(*                                                                         *)
(* A Python str is a sequence of one-character strings, so that lower(),  *)
(* the substring test `a in b` and split() are computed character by      *)
(* character.  Literal f-string templates and hours texts, on which the   *)
(* code never computes, are TLA+ strings.                                  *)
(***************************************************************************)
EXTENDS Naturals, Sequences, FiniteSets

VARIABLES
    query,       \* the request's text: BakeryQuery.query, ?item= or ?question=
    hoursFile,   \* bakery_hours.json as the file system holds it
    responses,   \* per operation, what its latest call gave (NoResponse before)
    calls,       \* the number of calls served so far
    lifespan_pc,    \* bakery_api_with_mcp.py: where lifespan() stands
    lifespan_yield, \* which of its two yields handed over control, if any
    agent_manager,  \* its global agent_manager: None or the FastAgent
    fast_agent,     \* the FastAgent instance lifespan() created, if any
    requests        \* its /check and /bakery-response requests, as received

vars == <<query, hoursFile, responses, calls,
         lifespan_pc, lifespan_yield, agent_manager, fast_agent, requests>>

\* the state of bakery_api_with_mcp.py's application
mcpVars == <<lifespan_pc, lifespan_yield, agent_manager, fast_agent, requests>>

----------------------------------------------------------------------------
(* Python strings *)

\* Python's None; no str equals it (a str's elements are single characters).
None == <<"<None>">>

UpperCase == <<"A","B","C","D","E","F","G","H","I","J","K","L","M","N","O","P","Q","R","S","T","U","V","W","X","Y","Z">>
LowerCase == <<"a","b","c","d","e","f","g","h","i","j","k","l","m","n","o","p","q","r","s","t","u","v","w","x","y","z">>

\* the lower-case letter of each upper-case letter
LowerOf == [c \in {UpperCase[i] : i \in 1..Len(UpperCase)} |->
               LowerCase[CHOOSE i \in 1..Len(UpperCase) : UpperCase[i] = c]]

\* str.lower() on one character
LowerChar(c) == IF c \in DOMAIN LowerOf THEN LowerOf[c] ELSE c

\* str.lower()
Lower(s) == [i \in 1..Len(s) |-> LowerChar(s[i])]

\* `sub in s` for two str
Contains(s, sub) ==
    \/ sub = <<>>
    \/ \E i \in 1..(Len(s) - Len(sub) + 1) :
           s[i] = sub[1] /\ SubSeq(s, i, i + Len(sub) - 1) = sub

IsSpace(c) == c = " "

Min(S) == CHOOSE i \in S : \A j \in S : i <= j

\* str.split() is the empty list: s holds no non-whitespace character
SplitIsEmpty(s) == \A i \in 1..Len(s) : IsSpace(s[i])

\* str.split()[0] when split() is not empty: the first maximal run of
\* non-whitespace characters
FirstWord(s) ==
    LET b == Min({i \in 1..Len(s) : ~IsSpace(s[i])})
        e == Min({i \in b..Len(s) : i = Len(s) \/ IsSpace(s[i + 1])})
    IN  SubSeq(s, b, e)

----------------------------------------------------------------------------
(* bakery_api_simplified.py *)

days ==
    << <<"M","o","n","d","a","y">>,
       <<"T","u","e","s","d","a","y">>,
       <<"W","e","d","n","e","s","d","a","y">>,
       <<"T","h","u","r","s","d","a","y">>,
       <<"F","r","i","d","a","y">>,
       <<"S","a","t","u","r","d","a","y">>,
       <<"S","u","n","d","a","y">> >>

check_menu_items ==
    << <<"b","r","e","a","d">>, <<"c","a","k","e">>,
       <<"c","r","o","i","s","s","a","n","t">>, <<"d","o","n","u","t">>,
       <<"m","u","f","f","i","n">>, <<"p","i","e">>, <<"c","o","o","k","i","e">> >>

RECURSIVE day_loop(_, _)
\* `for day in days:` from the i-th day on, lq being query.lower() (the same
\* at every turn); None when the loop runs out
day_loop(lq, i) ==
    IF i > Len(days) THEN None
    ELSE IF Contains(lq, Lower(days[i])) THEN days[i]
    ELSE day_loop(lq, i + 1)

\* a faulty extract_day_from_query, whose loop does not return at the first
\* match and so gives the last day that occurs
extract_day_last_match(q) ==
    LET lq == Lower(q)
        hits == {i \in 1..Len(days) : Contains(lq, Lower(days[i]))}
    IN  IF hits = {} THEN None
        ELSE days[CHOOSE i \in hits : \A j \in hits : j <= i]

extract_day_from_query(q) == day_loop(Lower(q), 1)

RECURSIVE item_loop(_, _)
\* `for item in menu_items:` from the i-th item on, lq being query.lower()
item_loop(lq, i) ==
    LET menu_items == check_menu_items
    IN  IF i > Len(menu_items) THEN None
        ELSE IF Contains(lq, Lower(menu_items[i])) THEN menu_items[i]
        ELSE item_loop(lq, i + 1)

\* a faulty extract_item_from_query, whose loop does not return at the first
\* match and so gives the last item that occurs
extract_item_last_match(q) ==
    LET lq == Lower(q)
        hits == {i \in 1..Len(check_menu_items) :
                    Contains(lq, Lower(check_menu_items[i]))}
    IN  IF hits = {} THEN None
        ELSE check_menu_items[CHOOSE i \in hits : \A j \in hits : j <= i]

extract_item_from_query(q) == item_loop(Lower(q), 1)

(* bakery_hours.json.  The file is absent, cannot be opened, holds text    *)
(* json.load rejects, or holds a JSON value.  A JSON object is the         *)
(* sequence of its members in file order (the order a Python dict keeps);  *)
(* a member's value is an object with any of the fields open and hours, or *)
(* a value that is no object.                                              *)

Entry(open, hours) == [json |-> "object", open |-> open, hours |-> hours]
Member(key, value) == [key |-> key, value |-> value]
JsonObject(members) == [json |-> "object", members |-> members]

\* a faulty built-in table, which lists Sunday first
DefaultHours_sunday_first ==
    JsonObject(<<
        Member(<<"S","u","n","d","a","y">>, Entry(FALSE, "Closed")),
        Member(<<"S","a","t","u","r","d","a","y">>, Entry(TRUE, "8:00 AM - 9:00 PM")),
        Member(<<"M","o","n","d","a","y">>, Entry(TRUE, "7:00 AM - 7:00 PM")),
        Member(<<"T","u","e","s","d","a","y">>, Entry(TRUE, "7:00 AM - 7:00 PM")),
        Member(<<"W","e","d","n","e","s","d","a","y">>, Entry(TRUE, "7:00 AM - 7:00 PM")),
        Member(<<"T","h","u","r","s","d","a","y">>, Entry(TRUE, "7:00 AM - 7:00 PM")),
        Member(<<"F","r","i","d","a","y">>, Entry(TRUE, "7:00 AM - 9:00 PM")) >>)

\* the dict literal get_bakery_hours returns from its except branch
DefaultHours ==
    JsonObject(<<
        Member(<<"M","o","n","d","a","y">>, Entry(TRUE, "7:00 AM - 7:00 PM")),
        Member(<<"T","u","e","s","d","a","y">>, Entry(TRUE, "7:00 AM - 7:00 PM")),
        Member(<<"W","e","d","n","e","s","d","a","y">>, Entry(TRUE, "7:00 AM - 7:00 PM")),
        Member(<<"T","h","u","r","s","d","a","y">>, Entry(TRUE, "7:00 AM - 7:00 PM")),
        Member(<<"F","r","i","d","a","y">>, Entry(TRUE, "7:00 AM - 9:00 PM")),
        Member(<<"S","a","t","u","r","d","a","y">>, Entry(TRUE, "8:00 AM - 9:00 PM")),
        Member(<<"S","u","n","d","a","y">>, Entry(FALSE, "Closed")) >>)

\* a faulty get_bakery_hours, which reads the file for the first call only
\* and hands every later call the built-in table
get_bakery_hours_once ==
    IF hoursFile.state = "json" /\ calls = 0 THEN hoursFile.value ELSE DefaultHours

\* open() or json.load() raises exactly when the file is not a JSON text
get_bakery_hours ==
    IF hoursFile.state = "json" THEN hoursFile.value ELSE DefaultHours

(* Python's operations on the loaded value.  Each either yields a value or *)
(* raises; Raise(e) stands for the exception of type e.                    *)

Raise(e) == [raised |-> e]
Return(v) == [returned |-> v]
Raised(r) == "raised" \in DOMAIN r

\* the keys of a dict, in iteration order
Keys(hours) == [i \in 1..Len(hours.members) |-> hours.members[i].key]

\* `day in bakery_hours`: a dict tests its keys, a list its items; a number
\* is not iterable
DayIn(day, hours) ==
    CASE hours.json = "object" ->
            Return(\E i \in 1..Len(hours.members) : hours.members[i].key = day)
      [] hours.json = "array" ->
            Return(\E i \in 1..Len(hours.items) : hours.items[i] = day)
      [] OTHER -> Raise("TypeError")

\* `bakery_hours[day]` once `day in bakery_hours` holds: a list cannot be
\* indexed by a str
Lookup(hours, day) ==
    IF hours.json = "object"
    THEN Return(hours.members[
             CHOOSE i \in 1..Len(hours.members) : hours.members[i].key = day].value)
    ELSE Raise("TypeError")

\* `entry[field]`: KeyError on an object without the field, TypeError on a
\* value that is no object
Field(entry, field) ==
    IF entry.json # "object" THEN Raise("TypeError")
    ELSE IF field \notin DOMAIN entry THEN Raise("KeyError")
    ELSE Return(entry[field])

(* The texts check_availability returns: the f-string's template with the  *)
(* values it interpolates.                                                 *)

NotCarried(item) ==
    [fmt |-> "NO, we don't carry {item} at our bakery. Would you like to try something else?",
     item |-> item]

SpecifyDay(item) ==
    [fmt |-> "YES, {item} is on our menu. Please specify which day you want it.",
     item |-> item]

\* a faulty Available, which prints the weekday hours of the built-in table
\* instead of the entry's
Available_fixed_hours(item, day, hours) ==
    [fmt |-> "YES, we have {item} available on {day}! Our hours are {hours}.",
     item |-> item, day |-> day, hours |-> "7:00 AM - 7:00 PM"]

Available(item, day, hours) ==
    [fmt |-> "YES, we have {item} available on {day}! Our hours are {hours}.",
     item |-> item, day |-> day, hours |-> hours]

\* open_days: the days ', '.join(...) lists, in order
Closed(day, open_days) ==
    [fmt |-> "NO, our bakery is closed on {day}. We're open {open_days}.",
     day |-> day, open_days |-> open_days]

\* a faulty NotSure, which answers a day the table lacks as a closed day
NotSure_closed(item) ==
    [fmt |-> "NO, our bakery is closed on {day}. We're open {open_days}.",
     day |-> None, open_days |-> <<>>]

NotSure(item) ==
    [fmt |-> "I'm not sure about that day, but {item} is on our menu. We're open Monday through Saturday.",
     item |-> item]

\* a faulty OpenDays, whose comprehension lost its `if` and lists every key
OpenDays_every_key(hours) == Return(Keys(hours))

\* [d for d in bakery_hours if bakery_hours[d]['open']] over a dict: the
\* first entry without a usable 'open' raises
OpenDays(hours) ==
    LET n == Len(hours.members)
        opens == [i \in 1..n |-> Field(hours.members[i].value, "open")]
        bad == {i \in 1..n : Raised(opens[i])}
        IsOpen(m) == Field(m.value, "open").returned
    IN  IF bad # {} THEN opens[Min(bad)]
        ELSE Return(LET kept == SelectSeq(hours.members, IsOpen)
                    IN  [i \in 1..Len(kept) |-> kept[i].key])

\* a faulty check_availability, which looks the day up in the table before
\* it tests whether the query named one
check_availability_table_first(item, day) ==
    LET bakery_hours == get_bakery_hours
        menu_items == check_menu_items
        present == DayIn(day, bakery_hours)
    IN  IF item = None THEN Raise("AttributeError")
        ELSE IF ~\E i \in 1..Len(menu_items) : Lower(menu_items[i]) = Lower(item)
        THEN Return(NotCarried(item))
        ELSE IF Raised(present) THEN present
        ELSE IF ~present.returned THEN Return(NotSure(item))
        ELSE IF day = None \/ day = <<>>
        THEN Return(SpecifyDay(item))
        ELSE LET entry == Lookup(bakery_hours, day)
                 open == Field(entry.returned, "open")
                 hours == Field(entry.returned, "hours")
                 open_days == OpenDays(bakery_hours)
             IN  IF Raised(entry) THEN entry
                 ELSE IF Raised(open) THEN open
                 ELSE IF open.returned
                 THEN IF Raised(hours) THEN hours
                      ELSE Return(Available(item, day, hours.returned))
                 ELSE IF Raised(open_days) THEN open_days
                 ELSE Return(Closed(day, open_days.returned))

check_availability(item, day) ==
    LET bakery_hours == get_bakery_hours
        menu_items == check_menu_items
    IN  IF item = None THEN Raise("AttributeError")        \* None.lower()
        ELSE IF ~\E i \in 1..Len(menu_items) : Lower(menu_items[i]) = Lower(item)
        THEN Return(NotCarried(item))
        ELSE IF day = None \/ day = <<>>                    \* not day
        THEN Return(SpecifyDay(item))
        ELSE LET present == DayIn(day, bakery_hours)
             IN  IF Raised(present) THEN present
                 ELSE IF ~present.returned THEN Return(NotSure(item))
                 ELSE LET entry == Lookup(bakery_hours, day)
                          open == Field(entry.returned, "open")
                          hours == Field(entry.returned, "hours")
                          open_days == OpenDays(bakery_hours)
                      IN  IF Raised(entry) THEN entry
                          ELSE IF Raised(open) THEN open
                          ELSE IF open.returned
                          THEN IF Raised(hours) THEN hours
                               ELSE Return(Available(item, day, hours.returned))
                          ELSE IF Raised(open_days) THEN open_days
                          ELSE Return(Closed(day, open_days.returned))

(* What a handler sends: {"response": ...} or, from its except branch,     *)
(* {"error": str(e)} (here the exception's type).                          *)

ResponseBody(text) == [response |-> text]
ErrorBody(e) == [error |-> e]
NoResponse == [none |-> TRUE]

Body(result) ==
    IF Raised(result) THEN ErrorBody(result.raised)
    ELSE ResponseBody(result.returned)

\* POST /check
check_availability_post(q) ==
    LET day == extract_day_from_query(q)
        item == extract_item_from_query(q)
    IN  Body(check_availability(item, day))

\* GET /check?item=
check_availability_get(item) ==
    LET day == extract_day_from_query(item)
        found == extract_item_from_query(item)
    IN  IF found # None THEN Body(check_availability(found, day))
        ELSE IF SplitIsEmpty(item) THEN ErrorBody("IndexError")   \* [][0]
        ELSE Body(check_availability(FirstWord(item), day))

----------------------------------------------------------------------------
(* app.py *)

bakery_items ==
    << <<"b","r","e","a","d">>, <<"c","a","k","e">>,
       <<"c","r","o","i","s","s","a","n","t">>, <<"d","o","n","u","t">>,
       <<"m","u","f","f","i","n">>, <<"p","i","e">> >>

\* GET /check?item=
RECURSIVE check_item_loop(_, _, _)
\* `for bakery_item in bakery_items:` from the i-th item on, and the return
\* after the loop
check_item_loop(item, item_lower, i) ==
    IF i > Len(bakery_items)
    THEN ResponseBody(
             [fmt |-> "Sorry, we don't have '{item}' available. Our selection includes: {bakery_items}",
              item |-> item, bakery_items |-> bakery_items])
    ELSE IF Contains(item_lower, bakery_items[i])
    THEN ResponseBody(
             [fmt |-> "Yes, we have {bakery_item} available in our bakery!",
              bakery_item |-> bakery_items[i]])
    ELSE check_item_loop(item, item_lower, i + 1)

\* GET /check?item=
check_item(item) == check_item_loop(item, Lower(item), 1)

----------------------------------------------------------------------------
(* bakery_api_with_mcp.py: the direct responder *)

\* the branch of a query that holds "bread"
bread_response(q) ==
    IF Contains(q, <<"w","h","o","l","e"," ","w","h","e","a","t">>) \/ Contains(q, <<"w","h","e","a","t">>)
    THEN "Yes, we have whole wheat bread available daily until 5 PM."
    ELSE IF Contains(q, <<"s","o","u","r","d","o","u","g","h">>)
    THEN "Our signature sourdough bread is available Tuesday through Saturday, fresh-baked each morning."
    ELSE IF Contains(q, <<"g","l","u","t","e","n">>)
    THEN "We offer gluten-free bread options on Mondays, Wednesdays, and Fridays."
    ELSE "Yes, we have fresh bread available daily until 5 PM."

\* the branch of a query that holds "cake"
cake_response(q) ==
    IF Contains(q, <<"c","h","o","c","o","l","a","t","e">>)
    THEN "Yes, our specialty chocolate cake is available all week!"
    ELSE IF Contains(q, <<"b","i","r","t","h","d","a","y">>)
    THEN "We offer custom birthday cakes with 48 hours advance notice. Please call to place an order."
    ELSE IF Contains(q, <<"c","h","e","e","s","e","c","a","k","e">>)
    THEN "Our New York style cheesecake is available Thursday through Sunday."
    ELSE IF Contains(q, <<"f","r","i","d","a","y">>) \/ Contains(q, <<"w","e","e","k","e","n","d">>)
    THEN "Yes, we have cake available on Friday and the weekend."
    ELSE "We have various cakes available. Please specify what type you're looking for."

\* the branch of a query that holds "pastry" or "pastries"
pastry_response(q) ==
    IF Contains(q, <<"c","r","o","i","s","s","a","n","t">>)
    THEN "Our butter croissants are baked fresh every morning and typically sell out by noon."
    ELSE "We offer a variety of pastries including croissants, danishes, and pain au chocolat."

\* a faulty hours branch, which gives the general hours whatever is asked
hours_response_general(q) ==
    "Our bakery is open Monday to Friday from 7 AM to 6 PM, and on weekends from 8 AM to 4 PM."

\* the branch of a query that holds "hours", "open", "close" or "closing"
hours_response(q) ==
    IF Contains(q, <<"w","e","e","k","e","n","d">>) \/ Contains(q, <<"s","a","t","u","r","d","a","y">>) \/ Contains(q, <<"s","u","n","d","a","y">>)
    THEN "Our weekend hours are 8 AM to 4 PM on both Saturday and Sunday."
    ELSE "Our bakery is open Monday to Friday from 7 AM to 6 PM, and on weekends from 8 AM to 4 PM."

\* a faulty process_bakery_query, which looks for "cake" before "bread"
process_bakery_query_cake_first(question) ==
    LET q == Lower(question)
        Has(w) == Contains(q, w)
    IN  IF Has(<<"c","a","k","e">>)
        THEN cake_response(q)
        ELSE IF Has(<<"b","r","e","a","d">>)
        THEN bread_response(q)
        ELSE IF Has(<<"p","a","s","t","r","y">>) \/ Has(<<"p","a","s","t","r","i","e","s">>)
        THEN pastry_response(q)
        ELSE IF Has(<<"c","o","f","f","e","e">>)
        THEN "We serve freshly brewed coffee all day, with espresso drinks available until 30 minutes before closing."
        ELSE IF Has(<<"h","o","u","r","s">>) \/ Has(<<"o","p","e","n">>) \/ Has(<<"c","l","o","s","e">>) \/ Has(<<"c","l","o","s","i","n","g">>)
        THEN hours_response(q)
        ELSE IF Has(<<"m","e","n","u">>) \/ Has(<<"o","f","f","e","r">>) \/ Has(<<"h","a","v","e">>)
        THEN "We offer a variety of breads, cakes, pastries, and coffee. Our most popular items are sourdough bread, chocolate cake, and croissants."
        ELSE IF Has(<<"o","r","d","e","r">>) \/ Has(<<"d","e","l","i","v","e","r","y">>) \/ Has(<<"p","i","c","k","u","p">>)
        THEN "You can place orders in person, by phone, or through our website. We offer pickup and local delivery within 5 miles."
        ELSE "Please ask about a specific bakery item, our hours, or ordering options, and I'll be happy to help!"

process_bakery_query(question) ==
    LET q == Lower(question)
        Has(w) == Contains(q, w)
    IN  IF Has(<<"b","r","e","a","d">>)
        THEN bread_response(q)
        ELSE IF Has(<<"c","a","k","e">>)
        THEN cake_response(q)
        ELSE IF Has(<<"p","a","s","t","r","y">>) \/ Has(<<"p","a","s","t","r","i","e","s">>)
        THEN pastry_response(q)
        ELSE IF Has(<<"c","o","f","f","e","e">>)
        THEN "We serve freshly brewed coffee all day, with espresso drinks available until 30 minutes before closing."
        ELSE IF Has(<<"h","o","u","r","s">>) \/ Has(<<"o","p","e","n">>) \/ Has(<<"c","l","o","s","e">>) \/ Has(<<"c","l","o","s","i","n","g">>)
        THEN hours_response(q)
        ELSE IF Has(<<"m","e","n","u">>) \/ Has(<<"o","f","f","e","r">>) \/ Has(<<"h","a","v","e">>)
        THEN "We offer a variety of breads, cakes, pastries, and coffee. Our most popular items are sourdough bread, chocolate cake, and croissants."
        ELSE IF Has(<<"o","r","d","e","r">>) \/ Has(<<"d","e","l","i","v","e","r","y">>) \/ Has(<<"p","i","c","k","u","p">>)
        THEN "You can place orders in person, by phone, or through our website. We offer pickup and local delivery within 5 miles."
        ELSE "Please ask about a specific bakery item, our hours, or ordering options, and I'll be happy to help!"

\* GET /bakery-response?question=
direct_bakery_response(question) ==
    [response |-> process_bakery_query(question), source |-> "direct"]

----------------------------------------------------------------------------
(* bakery_api_with_mcp.py: lifespan and the MCP endpoints *)

(* FastAgent comes from the mcp_agent package.  Each call into it, and     *)
(* each call of the agent's filesystem server, either returns or raises an *)
(* Exception; which one is the caller's to handle and is chosen freely.    *)

\* the FastAgent instance: whether FastAgent(...) built it, initialize()
\* returned, the agents registered on it, and the calls of cleanup() so far
NoInstance ==
    [created |-> FALSE, initialized |-> FALSE, agents |-> {}, cleanup_calls |-> 0]

\* the module once imported: agent_manager = None, lifespan() not entered
Imported ==
    /\ lifespan_pc = "not entered"
    /\ lifespan_yield = "none"
    /\ agent_manager = None
    /\ fast_agent = NoInstance
    /\ requests = <<>>

\* FastAgent("BakeryAgent", config_path=config_path), as the global holds it
FastAgent == <<"FastAgent", "BakeryAgent">>

\* a faulty except block, which leaves the global as the failed step left it
agent_manager_kept == agent_manager

\* the except block of lifespan(): agent_manager = None
agent_manager_after_error == None

\* a faulty finally block, which calls cleanup() whatever the global holds
cleanup_always(manager) == TRUE

\* the finally block of lifespan(): if agent_manager is not None
cleanup_due(manager) == manager # None

\* what leaves lifespan() when cleanup() raised: the except clause of the
\* finally block swallows it
lifespan_exit(cleanup_raised) == "returned"

\* raise HTTPException(status_code=..., detail=...), as the client gets it
HTTPException(status_code, detail) == [status_code |-> status_code, detail |-> detail]

\* a request of the application: the endpoint and its argument, the query
\* handed to run_mcp_query, how far run_mcp_query is, the agent's
\* hours_data_str and result, and the reply once sent
NewRequest(endpoint, arg) ==
    [endpoint |-> endpoint, arg |-> arg, query |-> None, pc |-> "received",
     hours_data_str |-> "", result |-> "", reply |-> NoResponse]

Reply(r, body) == [r EXCEPT !.pc = "done", !.reply = body]

\* a faulty except clause, which answers from the direct responder
run_mcp_query_fallback(r) ==
    Reply(r, [response |-> process_bakery_query(r.query), source |-> "direct"])

\* run_mcp_query's except clause: raise HTTPException(status_code=500, ...)
run_mcp_query_except(r) ==
    Reply(r, HTTPException(500, "Error processing MCP query: {e}"))

\* run_mcp_query up to `async with agent_manager.run()`
run_mcp_query(r, q) ==
    IF agent_manager = None
    THEN Reply([r EXCEPT !.query = q],
               HTTPException(503, "Bakery MCP service is not available due to initialization error."))
    ELSE [r EXCEPT !.query = q, !.pc = "enter run"]

\* `async with agent_manager.run() as agent`: __aenter__ returns or raises
enter_run(r, raises) ==
    IF raises THEN run_mcp_query_except(r) ELSE [r EXCEPT !.pc = "invoke"]

\* what the agent makes of its filesystem server: the listing lacks
\* bakery_hours.json, the file is read, or list() or read_file() raises
FilesystemOutcomes == {"not listed", "read", "list raises", "read raises"}

filesystem_hours(fs) ==
    CASE fs = "not listed" -> "Bakery hours file not found."
      [] fs = "read" -> "{content}"
      [] OTHER -> "Error accessing filesystem: {e_fs}"

\* a faulty agent, which keeps the query in a place all invocations share
\* and answers the one received last
bakery_agent_shared(rs, i, fs) ==
    [hours_data_str |-> filesystem_hours(fs),
     response |-> process_bakery_query(rs[Len(rs)].query)]

\* bakery_agent_impl(agent, query) for request i of rs
bakery_agent_impl(rs, i, fs) ==
    [hours_data_str |-> filesystem_hours(fs),
     response |-> process_bakery_query(rs[i].query)]

\* `await agent.invoke("bakery", query=query)`: raises, or runs
\* bakery_agent_impl and returns its response
invoke(rs, i, raises, fs) ==
    IF raises THEN run_mcp_query_except(rs[i])
    ELSE LET ran == bakery_agent_impl(rs, i, fs)
         IN  [rs[i] EXCEPT !.pc = "exit run",
                           !.hours_data_str = ran.hours_data_str,
                           !.result = ran.response]

\* return {"response": result, "source": "mcp"} through __aexit__, which
\* returns or raises
exit_run(r, raises) ==
    IF raises THEN run_mcp_query_except(r)
    ELSE Reply(r, [response |-> r.result, source |-> "mcp"])

\* POST /check
mcp_check_availability_post(r) == run_mcp_query(r, r.arg)

\* a faulty GET /check, which hands the item itself to run_mcp_query
item_itself(item) == item

\* f"Can I order a {item}?"
item_query(item) ==
    <<"C","a","n"," ","I"," ","o","r","d","e","r"," ","a"," ">> \o item \o <<"?">>

\* GET /check?item=
mcp_check_availability_get(r) ==
    IF r.arg = None \/ r.arg = <<>>                         \* not item
    THEN Reply(r, HTTPException(400, "Missing 'item' query parameter"))
    ELSE run_mcp_query(r, item_query(r.arg))

\* GET /bakery-response?question=
mcp_direct_bakery_response(r) == Reply(r, direct_bakery_response(r.arg))

----------------------------------------------------------------------------
(* Requests and hours files *)

MaxWords == 3
MaxTerms == 2
MaxKeywords == 2
MaxCalls == 2
MaxRequests == 2

RECURSIVE Join(_)
\* ' '.join(ws)
Join(ws) ==
    IF Len(ws) = 0 THEN <<>>
    ELSE IF Len(ws) = 1 THEN ws[1]
    ELSE ws[1] \o <<" ">> \o Join(Tail(ws))

\* the texts of at most n of the words W, joined by single spaces
Texts(W, n) == {Join(ws) : ws \in UNION {[1..k -> W] : k \in 0..n}}

\* the words of a request to the service: nothing, a menu item and two
\* days, in mixed case
Words ==
    { <<>>, <<"C","a","k","e">>, <<"M","O","N","D","A","Y">>, <<"s","u","n","d","a","y">> }

\* the words the extractors are tried on: every menu item and every day as
\* the code spells it, some in another case or inside a longer word
Terms ==
    { <<>>,
      <<"b","r","e","a","d">>, <<"c","a","k","e">>, <<"c","r","o","i","s","s","a","n","t">>,
      <<"d","o","n","u","t">>, <<"m","u","f","f","i","n">>, <<"p","i","e">>,
      <<"c","o","o","k","i","e">>, <<"M","o","n","d","a","y">>, <<"T","u","e","s","d","a","y">>,
      <<"W","e","d","n","e","s","d","a","y">>, <<"T","h","u","r","s","d","a","y">>,
      <<"F","r","i","d","a","y">>, <<"S","a","t","u","r","d","a","y">>, <<"S","u","n","d","a","y">>,
      <<"C","A","K","E">>, <<"c","h","e","e","s","e","c","a","k","e">>, <<"m","o","n","d","a","y">>,
      <<"S","U","N","D","A","Y","S">>, <<"b","a","g","e","l">> }

\* the words of a question: every keyword process_bakery_query looks for
Keywords ==
    { <<>>,
      <<"b","r","e","a","d">>, <<"c","a","k","e">>, <<"p","a","s","t","r","y">>,
      <<"p","a","s","t","r","i","e","s">>, <<"c","o","f","f","e","e">>, <<"h","o","u","r","s">>,
      <<"o","p","e","n">>, <<"c","l","o","s","e">>, <<"c","l","o","s","i","n","g">>,
      <<"m","e","n","u">>, <<"o","f","f","e","r">>, <<"h","a","v","e">>, <<"o","r","d","e","r">>,
      <<"d","e","l","i","v","e","r","y">>, <<"p","i","c","k","u","p">>,
      <<"w","h","o","l","e"," ","w","h","e","a","t">>, <<"w","h","e","a","t">>,
      <<"s","o","u","r","d","o","u","g","h">>, <<"g","l","u","t","e","n">>,
      <<"c","h","o","c","o","l","a","t","e">>, <<"b","i","r","t","h","d","a","y">>,
      <<"c","h","e","e","s","e","c","a","k","e">>, <<"f","r","i","d","a","y">>,
      <<"w","e","e","k","e","n","d">>, <<"c","r","o","i","s","s","a","n","t">>,
      <<"s","a","t","u","r","d","a","y">>, <<"s","u","n","d","a","y">>, <<"B","R","E","A","D">>,
      <<"C","a","k","e">>, <<"b","a","g","e","l">> }

\* the values a member of the hours object may hold
EntryValues ==
    { Entry(TRUE, "6:00 AM - 2:00 PM"),
      Entry(FALSE, "Closed"),
      [json |-> "object", open |-> TRUE],
      [json |-> "string"] }

SampleKeys == { <<"M","o","n","d","a","y">>, <<"S","u","n","d","a","y">> }

\* the JSON objects whose members are distinct SampleKeys, in any order
JsonObjects ==
    {JsonObject(ms) :
        ms \in {s \in UNION {[1..n -> [key : SampleKeys, value : EntryValues]] :
                                n \in 0..Cardinality(SampleKeys)} :
                   \A i, j \in 1..Len(s) : s[i].key = s[j].key => i = j}}

JsonValues ==
    JsonObjects
    \cup {[json |-> "array", items |-> <<>>],
          [json |-> "array", items |-> << <<"M","o","n","d","a","y">> >>],
          [json |-> "number"]}

HoursFiles ==
    {[state |-> "missing"], [state |-> "unreadable"], [state |-> "not json"]}
    \cup {[state |-> "json", value |-> v] : v \in JsonValues}

Unanswered(endpoints) == [e \in endpoints |-> NoResponse]

\* the texts sent to the MCP application: nothing, an item the direct
\* responder knows and one it does not
McpTexts == { <<>>, <<"b","r","e","a","d">>, <<"b","a","g","e","l">> }

\* the question of direct_bakery_response's docstring:
\* "When are you open on weekends?"
Questions ==
    { <<"W","h","e","n"," ","a","r","e"," ","y","o","u"," ","o","p","e","n"," ","o","n"," ","w","e","e","k","e","n","d","s","?">> }

\* bakery_hours.json as lifespan() may find it
McpHoursFiles ==
    {[state |-> "missing"], [state |-> "unreadable"],
     [state |-> "json", value |-> DefaultHours]}

----------------------------------------------------------------------------
(* The service of bakery_api_simplified.py (start_server.py runs it) *)

Init ==
    /\ query \in Texts(Words, MaxWords)
    /\ hoursFile \in HoursFiles
    /\ responses = Unanswered({"POST /check", "GET /check"})
    /\ calls = 0
    /\ Imported

CheckAvailabilityPost ==
    /\ calls < MaxCalls
    /\ calls' = calls + 1
    /\ responses' = [responses EXCEPT !["POST /check"] = check_availability_post(query)]
    /\ UNCHANGED <<query, hoursFile>>
    /\ UNCHANGED mcpVars

CheckAvailabilityGet ==
    /\ calls < MaxCalls
    /\ calls' = calls + 1
    /\ responses' = [responses EXCEPT !["GET /check"] = check_availability_get(query)]
    /\ UNCHANGED <<query, hoursFile>>
    /\ UNCHANGED mcpVars

Next == CheckAvailabilityPost \/ CheckAvailabilityGet

Spec == Init /\ [][Next]_vars

----------------------------------------------------------------------------
(* The extractors on their own, and the service of app.py *)

InitExtract ==
    /\ query \in Texts(Terms, MaxTerms)
    /\ hoursFile = [state |-> "missing"]
    /\ responses = Unanswered({"extract_day_from_query", "extract_item_from_query",
                               "check_item"})
    /\ calls = 0
    /\ Imported

ExtractDay ==
    /\ calls < MaxCalls
    /\ calls' = calls + 1
    /\ responses' = [responses EXCEPT
           !["extract_day_from_query"] = Return(extract_day_from_query(query))]
    /\ UNCHANGED <<query, hoursFile>>
    /\ UNCHANGED mcpVars

ExtractItem ==
    /\ calls < MaxCalls
    /\ calls' = calls + 1
    /\ responses' = [responses EXCEPT
           !["extract_item_from_query"] = Return(extract_item_from_query(query))]
    /\ UNCHANGED <<query, hoursFile>>
    /\ UNCHANGED mcpVars

CheckItem ==
    /\ calls < MaxCalls
    /\ calls' = calls + 1
    /\ responses' = [responses EXCEPT !["check_item"] = check_item(query)]
    /\ UNCHANGED <<query, hoursFile>>
    /\ UNCHANGED mcpVars

NextExtract == ExtractDay \/ ExtractItem \/ CheckItem

SpecExtract == InitExtract /\ [][NextExtract]_vars

----------------------------------------------------------------------------
(* GET /bakery-response of bakery_api_with_mcp.py *)

InitDirect ==
    /\ query \in Texts(Keywords, MaxKeywords) \cup Questions
    /\ hoursFile = [state |-> "missing"]
    /\ responses = Unanswered({"GET /bakery-response"})
    /\ calls = 0
    /\ Imported

DirectBakeryResponse ==
    /\ calls < MaxCalls
    /\ calls' = calls + 1
    /\ responses' = [responses EXCEPT
           !["GET /bakery-response"] = direct_bakery_response(query)]
    /\ UNCHANGED <<query, hoursFile>>
    /\ UNCHANGED mcpVars

NextDirect == DirectBakeryResponse

SpecDirect == InitDirect /\ [][NextDirect]_vars
----------------------------------------------------------------------------
(* The application of bakery_api_with_mcp.py under an ASGI server: the     *)
(* server enters lifespan(), serves requests while lifespan() is suspended *)
(* at a yield, and resumes it for shutdown once no request is in flight.   *)

InitMcp ==
    /\ query = <<>>
    /\ hoursFile \in McpHoursFiles
    /\ responses = Unanswered({})
    /\ calls = 0
    /\ Imported

\* the except block of lifespan(): the global is reset and control is
\* handed over all the same
SetupFailed ==
    /\ agent_manager' = agent_manager_after_error
    /\ lifespan_pc' = "yielded"
    /\ lifespan_yield' = "except"

SetupGoesOn(pc) ==
    /\ lifespan_pc' = pc
    /\ UNCHANGED <<lifespan_yield, agent_manager>>

\* global agent_manager; agent_manager = None
LifespanEnter ==
    /\ lifespan_pc = "not entered"
    /\ lifespan_pc' = "read hours"
    /\ agent_manager' = None
    /\ UNCHANGED <<query, hoursFile, responses, calls, lifespan_yield, fast_agent, requests>>

\* os.path.exists / open / f.read of bakery_hours.json
ReadHours ==
    /\ lifespan_pc = "read hours"
    /\ IF hoursFile.state = "unreadable" THEN SetupFailed ELSE SetupGoesOn("write config")
    /\ UNCHANGED <<query, hoursFile, responses, calls, fast_agent, requests>>

\* writing fastagent.config.yaml and listing the directory
WriteConfig ==
    /\ lifespan_pc = "write config"
    /\ \E raises \in BOOLEAN :
           IF raises THEN SetupFailed ELSE SetupGoesOn("create")
    /\ UNCHANGED <<query, hoursFile, responses, calls, fast_agent, requests>>

\* agent_manager = FastAgent("BakeryAgent", config_path=config_path)
CreateFastAgent ==
    /\ lifespan_pc = "create"
    /\ \E raises \in BOOLEAN :
           IF raises
           THEN SetupFailed /\ UNCHANGED fast_agent
           ELSE /\ lifespan_pc' = "initialize"
                /\ agent_manager' = FastAgent
                /\ fast_agent' = [NoInstance EXCEPT !.created = TRUE]
                /\ UNCHANGED lifespan_yield
    /\ UNCHANGED <<query, hoursFile, responses, calls, requests>>

\* await agent_manager.initialize()
InitializeFastAgent ==
    /\ lifespan_pc = "initialize"
    /\ \E raises \in BOOLEAN :
           IF raises
           THEN SetupFailed /\ UNCHANGED fast_agent
           ELSE /\ SetupGoesOn("register")
                /\ fast_agent' = [fast_agent EXCEPT !.initialized = TRUE]
    /\ UNCHANGED <<query, hoursFile, responses, calls, requests>>

\* @agent_manager.agent(name="bakery", ...), then the yield of the try block
RegisterAgent ==
    /\ lifespan_pc = "register"
    /\ \E raises \in BOOLEAN :
           IF raises
           THEN SetupFailed /\ UNCHANGED fast_agent
           ELSE /\ lifespan_pc' = "yielded"
                /\ lifespan_yield' = "try"
                /\ fast_agent' = [fast_agent EXCEPT !.agents = {"bakery"}]
                /\ UNCHANGED agent_manager
    /\ UNCHANGED <<query, hoursFile, responses, calls, requests>>

\* the finally block of lifespan(), run when the server shuts down
Shutdown ==
    /\ lifespan_pc = "yielded"
    /\ \A i \in 1..Len(requests) : requests[i].pc = "done"
    /\ IF cleanup_due(agent_manager)
       THEN \E raises \in BOOLEAN :
                /\ fast_agent' = [fast_agent EXCEPT !.cleanup_calls = @ + 1]
                /\ lifespan_pc' = IF raises THEN lifespan_exit(TRUE) ELSE "returned"
       ELSE /\ lifespan_pc' = "returned"
            /\ UNCHANGED fast_agent
    /\ UNCHANGED <<query, hoursFile, responses, calls, lifespan_yield, agent_manager, requests>>

\* the server hands a request to its handler, which runs to its first await
Receive(endpoint, arg) ==
    /\ lifespan_pc = "yielded"
    /\ Len(requests) < MaxRequests
    /\ LET r == NewRequest(endpoint, arg)
       IN  requests' = Append(requests,
               CASE endpoint = "POST /check" -> mcp_check_availability_post(r)
                 [] endpoint = "GET /check" -> mcp_check_availability_get(r)
                 [] endpoint = "GET /bakery-response" -> mcp_direct_bakery_response(r))
    /\ UNCHANGED <<query, hoursFile, responses, calls,
                   lifespan_pc, lifespan_yield, agent_manager, fast_agent>>

ReceivePost == \E q \in McpTexts : Receive("POST /check", q)
ReceiveGet == \E item \in McpTexts : Receive("GET /check", item)
ReceiveDirect == \E question \in McpTexts : Receive("GET /bakery-response", question)

\* request i goes on from an await of run_mcp_query as step says
Resume(i, at, step) ==
    /\ requests[i].pc = at
    /\ requests' = [requests EXCEPT ![i] = step]
    /\ UNCHANGED <<query, hoursFile, responses, calls,
                   lifespan_pc, lifespan_yield, agent_manager, fast_agent>>

EnterRun ==
    \E i \in 1..Len(requests), raises \in BOOLEAN :
        Resume(i, "enter run", enter_run(requests[i], raises))

Invoke ==
    \E i \in 1..Len(requests), raises \in BOOLEAN, fs \in FilesystemOutcomes :
        Resume(i, "invoke", invoke(requests, i, raises, fs))

ExitRun ==
    \E i \in 1..Len(requests), raises \in BOOLEAN :
        Resume(i, "exit run", exit_run(requests[i], raises))

NextMcp ==
    \/ LifespanEnter \/ ReadHours \/ WriteConfig \/ CreateFastAgent
    \/ InitializeFastAgent \/ RegisterAgent \/ Shutdown
    \/ ReceivePost \/ ReceiveGet \/ ReceiveDirect
    \/ EnterRun \/ Invoke \/ ExitRun

SpecMcp == InitMcp /\ [][NextMcp]_vars

----------------------------------------------------------------------------
(* Properties *)

Range(s) == {s[i] : i \in 1..Len(s)}

\* the places in the list names of the names that occur in q, whatever the
\* case of either
PlacesIn(names, q) ==
    LET lq == Lower(q)
    IN  {i \in 1..Len(names) : Contains(lq, Lower(names[i]))}

\* the places in the menu, and in the week, of the names that occur in q
ItemsIn(q) == PlacesIn(check_menu_items, q)
DaysIn(q) == PlacesIn(days, q)

\* the item and the day a request resolves to, when some occur
FirstItem(q) == check_menu_items[Min(ItemsIn(q))]
FirstDay(q) == days[Min(DaysIn(q))]

Answered(e) == responses[e] # NoResponse

\* the body is {"response": text} with a text of template fmt
IsText(body, fmt) == "response" \in DOMAIN body /\ body.response.fmt = fmt

CheckEndpoints == {"POST /check", "GET /check"}

\* C1: a query in which no menu item occurs is answered by POST /check with
\* the "we don't carry" text, never with an error.
C1_NoItemIsNotCarried ==
    (Answered("POST /check") /\ ItemsIn(query) = {})
        => IsText(responses["POST /check"], NotCarried(None).fmt)

\* C2: whatever the request text and the hours file, both /check handlers
\* answer with a text: neither ends in {"error": ...}.
C2_NeverAnError ==
    \A e \in CheckEndpoints : "error" \notin DOMAIN responses[e]
\* the loaded value is an hours table: an object whose members are days
\* with an open flag and an hours text
IsEntry(v) == v.json = "object" /\ {"open", "hours"} \subseteq DOMAIN v
IsHoursTable(v) ==
    /\ v.json = "object"
    /\ \A i \in 1..Len(v.members) :
            v.members[i].key \in Range(days) /\ IsEntry(v.members[i].value)

\* the table's entry for day d, when it has one
EntryFor(table, d) ==
    table.members[CHOOSE i \in 1..Len(table.members) : table.members[i].key = d].value

\* the keys of the table whose entry is open, in the table's order
OpenKeys(table) ==
    LET IsOpen(m) == m.value.open
        kept == SelectSeq(table.members, IsOpen)
    IN  [i \in 1..Len(kept) |-> kept[i].key]

\* checkAvailability of the specification over an hours table, for an item
\* of the menu
Resolve(table, item, day) ==
    IF day = None THEN SpecifyDay(item)
    ELSE IF day \notin Range(Keys(table)) THEN NotSure(item)
    ELSE IF EntryFor(table, day).open
    THEN Available(item, day, EntryFor(table, day).hours)
    ELSE Closed(day, OpenKeys(table))

\* C3: when bakery_hours.json is missing, unreadable, no JSON or no hours
\* table, a request for a menu item is answered as the built-in default
\* table answers it.
C3_CorruptFileAnsweredFromDefault ==
    \A e \in CheckEndpoints :
        (/\ Answered(e)
         /\ ItemsIn(query) # {}
         /\ hoursFile.state = "json" => ~IsHoursTable(hoursFile.value))
            => responses[e] = ResponseBody(
                   Resolve(DefaultHours, extract_item_from_query(query),
                           extract_day_from_query(query)))
\* the table check_availability works on has an entry for d that is open
\* (closed)
HasEntry(table, d) ==
    table.json = "object" /\ d \in Range(Keys(table)) /\ IsEntry(EntryFor(table, d))
OpenOn(table, d) == HasEntry(table, d) /\ EntryFor(table, d).open
ClosedOn(table, d) == HasEntry(table, d) /\ ~EntryFor(table, d).open

\* every member of the table is an object with an open flag
AllFlagged(table) ==
    /\ table.json = "object"
    /\ \A i \in 1..Len(table.members) :
            /\ table.members[i].value.json = "object"
            /\ "open" \in DOMAIN table.members[i].value

\* the body says item is available on day d, with the hours text h
SaysAvailable(body, item, d, h) ==
    /\ IsText(body, Available(item, d, h).fmt)
    /\ body.response.item = item
    /\ body.response.day = d
    /\ body.response.hours = h

\* C4 as stated: for every day that occurs in the query and is open in the
\* table in use, the answer to a query with a menu item says the item is
\* available on that day, with that day's hours text.
C4_EveryOpenDayOfQuery ==
    \A e \in CheckEndpoints :
        (Answered(e) /\ ItemsIn(query) # {})
            => \A i \in DaysIn(query) :
                   OpenOn(get_bakery_hours, days[i])
                       => SaysAvailable(responses[e], FirstItem(query), days[i],
                                        EntryFor(get_bakery_hours, days[i]).hours)

\* C4, amended: when the first of Monday..Sunday that occurs in the query
\* is open in the table in use, the answer to a query with a menu item says
\* the first menu item of the query is available on that day, with exactly
\* that day's hours text from that table.
C4_FirstDayOpen ==
    LET table == get_bakery_hours
        items == ItemsIn(query)
        dayset == DaysIn(query)
        item == check_menu_items[Min(items)]
        day == days[Min(dayset)]
    IN  (items # {} /\ dayset # {} /\ OpenOn(table, day))
            => \A e \in CheckEndpoints :
                   Answered(e) =>
                       SaysAvailable(responses[e], item, day, EntryFor(table, day).hours)

\* C4 happens: POST /check has answered a query with a menu item and two
\* days, the first of them open in a loaded table, the other closed.
C4_Witness ==
    /\ Answered("POST /check")
    /\ hoursFile.state = "json"
    /\ ItemsIn(query) # {}
    /\ Cardinality(DaysIn(query)) = 2
    /\ OpenOn(get_bakery_hours, FirstDay(query))
    /\ \E i \in DaysIn(query) : ClosedOn(get_bakery_hours, days[i])

\* the body says the bakery is closed on day d and lists the days named
SaysClosed(body, d, named) ==
    /\ IsText(body, Closed(d, named).fmt)
    /\ body.response.day = d
    /\ body.response.open_days = named

\* the body states closure on d and names at least one day; every day it
\* names is open in the table and d is not among them
ClosureNamingOpenDays(body, table, d) ==
    /\ IsText(body, Closed(d, <<>>).fmt)
    /\ body.response.day = d
    /\ body.response.open_days # <<>>
    /\ \A k \in Range(body.response.open_days) : OpenOn(table, k) /\ k # d

\* C5 as stated: for every day that occurs in the query and is closed in the
\* table in use, whatever the table, the answer to a query with a menu item
\* states closure on that day and names at least one day, all of them open.
C5_EveryClosedDayOfQuery ==
    \A e \in CheckEndpoints :
        (Answered(e) /\ ItemsIn(query) # {})
            => \A i \in DaysIn(query) :
                   ClosedOn(get_bakery_hours, days[i])
                       => ClosureNamingOpenDays(responses[e], get_bakery_hours, days[i])

\* C5, amended: when every member of the table in use carries an open flag
\* and the first of Monday..Sunday that occurs in the query is closed in it,
\* the answer to a query with a menu item states closure on that day and
\* names exactly the table's open days, in the table's order: each is open,
\* the queried day is not among them, and none is named only when the table
\* has no open day.
C5_FirstDayClosed ==
    LET table == get_bakery_hours
        items == ItemsIn(query)
        dayset == DaysIn(query)
        day == days[Min(dayset)]
    IN  (/\ items # {}
         /\ dayset # {}
         /\ AllFlagged(table)
         /\ ClosedOn(table, day))
            => \A e \in CheckEndpoints :
                   Answered(e) =>
                       /\ SaysClosed(responses[e], day, OpenKeys(table))
                       /\ \A k \in Range(responses[e].response.open_days) :
                              k # day /\ EntryFor(table, k).open
                       /\ (responses[e].response.open_days = <<>>)
                              <=> (\A k \in Range(Keys(table)) : ~EntryFor(table, k).open)

\* C5 happens: POST /check has answered a query for a menu item on a day
\* that a loaded table closes, and names an open day.
C5_Witness ==
    /\ Answered("POST /check")
    /\ hoursFile.state = "json"
    /\ ItemsIn(query) # {}
    /\ DaysIn(query) # {}
    /\ AllFlagged(get_bakery_hours)
    /\ ClosedOn(get_bakery_hours, FirstDay(query))
    /\ IsText(responses["POST /check"], Closed(<<>>, <<>>).fmt)
    /\ responses["POST /check"].response.open_days # <<>>
\* C9: a loaded hours object that lacks the first day of the query answers
\* a query with a menu item "not sure about that day, item is on our menu",
\* not "closed"; the default table has exactly the seven days as keys and
\* never gives that answer.
C9_MissingDayIsUnsure ==
    LET table == get_bakery_hours
        items == ItemsIn(query)
        dayset == DaysIn(query)
        item == check_menu_items[Min(items)]
        day == days[Min(dayset)]
    IN  /\ hoursFile.state # "json" => Keys(table) = days
        /\ \A e \in CheckEndpoints :
               Answered(e) =>
                   /\ (/\ hoursFile.state = "json"
                       /\ table.json = "object"
                       /\ items # {}
                       /\ dayset # {}
                       /\ day \notin Range(Keys(table)))
                          => responses[e] = ResponseBody(NotSure(item))
                   /\ hoursFile.state # "json"
                          => ~IsText(responses[e], NotSure(None).fmt)

\* C9 happens: POST /check has answered a query for a menu item on a day
\* that a loaded table with another day does not have.
C9_Witness ==
    /\ Answered("POST /check")
    /\ hoursFile.state = "json"
    /\ hoursFile.value.json = "object"
    /\ hoursFile.value.members # <<>>
    /\ ItemsIn(query) # {}
    /\ DaysIn(query) # {}
    /\ FirstDay(query) \notin Range(Keys(hoursFile.value))

\* what each /check handler returns for a text, as the state stands
Resolved(e, q) ==
    IF e = "POST /check" THEN check_availability_post(q) ELSE check_availability_get(q)

\* C10: an answer, once given, is the answer every later call for the same
\* text gives, whatever calls come in between: no call changes the hours
\* file or an earlier answer, and each answer is what resolving the text
\* again gives.
C10_Idempotent ==
    /\ [](\A e \in CheckEndpoints : Answered(e) => responses[e] = Resolved(e, query))
    /\ [][/\ hoursFile' = hoursFile
          /\ \A e \in CheckEndpoints : Answered(e) => responses'[e] = responses[e]]_vars

\* C10 happens: POST /check has resolved the same text twice, with a loaded
\* table, and GET /check never.
C10_Witness ==
    /\ calls >= 2
    /\ Answered("POST /check")
    /\ ~Answered("GET /check")
    /\ hoursFile.state = "json"
    /\ IsText(responses["POST /check"], Available(None, None, "").fmt)
----------------------------------------------------------------------------
(* Properties of the extractors *)

\* r is the first of names, in the order of names, that occurs in q
\* whatever the case, and None exactly when none occurs
IsFirstOf(names, q, r) ==
    LET places == PlacesIn(names, q)
    IN  /\ r = None <=> places = {}
        /\ r # None => \E i \in places : r = names[i] /\ \A j \in places : i <= j

\* the body of check_item names the first of names that occurs in q, and
\* says it has none exactly when none occurs
NamesFirstOf(names, q, body) ==
    IsFirstOf(names, q,
              IF body.response.fmt = "Yes, we have {bakery_item} available in our bakery!"
              THEN body.response.bakery_item ELSE None)

\* C7 as stated: over the menu bread, cake, croissant, donut, muffin, pie,
\* cookie, both extract_item_from_query and check_item give the first item
\* of the menu that occurs in the query, and none exactly when none occurs.
C7_FirstOfTheMenu ==
    /\ Answered("extract_item_from_query")
           => IsFirstOf(check_menu_items, query,
                        responses["extract_item_from_query"].returned)
    /\ Answered("check_item")
           => NamesFirstOf(check_menu_items, query, responses["check_item"])

\* C7, amended: extract_item_from_query gives the first item of the menu
\* bread, cake, croissant, donut, muffin, pie, cookie that occurs in the
\* query, whatever the case and wherever the items stand in the query, and
\* None exactly when none occurs; check_item does the same over its own
\* list bread, cake, croissant, donut, muffin, pie, which has no cookie.
C7_FirstOfOwnList ==
    /\ Answered("extract_item_from_query")
           => IsFirstOf(check_menu_items, query,
                        responses["extract_item_from_query"].returned)
    /\ Answered("check_item")
           => NamesFirstOf(bakery_items, query, responses["check_item"])

\* C7 happens: the query names pie before bread, and both operations have
\* answered bread.
C7_Witness ==
    /\ query = <<"p","i","e">> \o <<" ">> \o <<"b","r","e","a","d">>
    /\ responses["extract_item_from_query"] = Return(<<"b","r","e","a","d">>)
    /\ Answered("check_item")
    /\ responses["check_item"].response.bakery_item = <<"b","r","e","a","d">>

\* C8: extract_day_from_query gives the first of Monday..Sunday that occurs
\* in the query, whatever the case and wherever the days stand in the query,
\* spelled as in that list, and None exactly when no day occurs.
C8_FirstDayOfTheWeek ==
    Answered("extract_day_from_query")
        => /\ IsFirstOf(days, query, responses["extract_day_from_query"].returned)
           /\ responses["extract_day_from_query"].returned \in Range(days) \cup {None}

\* C8 happens: the query names Sunday before Monday, neither spelled as in
\* the list, and the answer is Monday.
C8_Witness ==
    /\ query = <<"S","U","N","D","A","Y","S">> \o <<" ">> \o <<"m","o","n","d","a","y">>
    /\ responses["extract_day_from_query"] = Return(<<"M","o","n","d","a","y">>)

----------------------------------------------------------------------------
(* Properties of the direct responder *)

\* classify of the specification: the categories in priority order, the
\* keywords of each and the texts of each
Priority == <<"bread", "cake", "pastry", "coffee", "hours", "menu", "order">>

KeywordsOf(c) ==
    CASE c = "bread" -> { <<"b","r","e","a","d">> }
      [] c = "cake" -> { <<"c","a","k","e">> }
      [] c = "pastry" -> { <<"p","a","s","t","r","y">>, <<"p","a","s","t","r","i","e","s">> }
      [] c = "coffee" -> { <<"c","o","f","f","e","e">> }
      [] c = "hours" -> { <<"h","o","u","r","s">>, <<"o","p","e","n">>, <<"c","l","o","s","e">>, <<"c","l","o","s","i","n","g">> }
      [] c = "menu" -> { <<"m","e","n","u">>, <<"o","f","f","e","r">>, <<"h","a","v","e">> }
      [] c = "order" -> { <<"o","r","d","e","r">>, <<"d","e","l","i","v","e","r","y">>, <<"p","i","c","k","u","p">> }

TextsOf(c) ==
    CASE c = "bread" ->
               { "Yes, we have whole wheat bread available daily until 5 PM.",
                 "Our signature sourdough bread is available Tuesday through Saturday, fresh-baked each morning.",
                 "We offer gluten-free bread options on Mondays, Wednesdays, and Fridays.",
                 "Yes, we have fresh bread available daily until 5 PM." }
      [] c = "cake" ->
               { "Yes, our specialty chocolate cake is available all week!",
                 "We offer custom birthday cakes with 48 hours advance notice. Please call to place an order.",
                 "Our New York style cheesecake is available Thursday through Sunday.",
                 "Yes, we have cake available on Friday and the weekend.",
                 "We have various cakes available. Please specify what type you're looking for." }
      [] c = "pastry" ->
               { "Our butter croissants are baked fresh every morning and typically sell out by noon.",
                 "We offer a variety of pastries including croissants, danishes, and pain au chocolat." }
      [] c = "coffee" ->
               { "We serve freshly brewed coffee all day, with espresso drinks available until 30 minutes before closing." }
      [] c = "hours" ->
               { "Our weekend hours are 8 AM to 4 PM on both Saturday and Sunday.",
                 "Our bakery is open Monday to Friday from 7 AM to 6 PM, and on weekends from 8 AM to 4 PM." }
      [] c = "menu" ->
               { "We offer a variety of breads, cakes, pastries, and coffee. Our most popular items are sourdough bread, chocolate cake, and croissants." }
      [] c = "order" ->
               { "You can place orders in person, by phone, or through our website. We offer pickup and local delivery within 5 miles." }
      [] OTHER ->
               { "Please ask about a specific bakery item, our hours, or ordering options, and I'll be happy to help!" }

\* the first category in priority order with a keyword in the lower-cased
\* query; "default" when there is none
Classify(q) ==
    LET lq == Lower(q)
        hit == {i \in 1..Len(Priority) : \E k \in KeywordsOf(Priority[i]) : Contains(lq, k)}
    IN  IF hit = {} THEN "default" ELSE Priority[Min(hit)]

\* C6: the text process_bakery_query gives is one of the texts of the
\* first category, in the order bread, cake, pastry, coffee, hours, menu,
\* order, that has a keyword in the lower-cased query (the default text when
\* none has), whatever other words, sub-keywords of other categories
\* included, the query holds.
C6_ClassifyByPriority ==
    Answered("GET /bakery-response")
        => /\ responses["GET /bakery-response"].source = "direct"
           /\ responses["GET /bakery-response"].response \in TextsOf(Classify(query))

\* C6 happens: the query holds "cake" and "bread" and is answered with a
\* bread text.
C6_Witness ==
    /\ Answered("GET /bakery-response")
    /\ Contains(Lower(query), <<"c","a","k","e">>)
    /\ Contains(Lower(query), <<"b","r","e","a","d">>)
    /\ responses["GET /bakery-response"].response \in TextsOf("bread")

----------------------------------------------------------------------------
(* Properties of the MCP application *)

\* the reply is an HTTP error of that status
Fails(reply, status_code) ==
    "status_code" \in DOMAIN reply /\ reply.status_code = status_code

\* the reply is a body {"response": ..., "source": ...} of that source
From(reply, source) ==
    "source" \in DOMAIN reply /\ reply.source = source

\* the requests to POST /check and GET /check that reached run_mcp_query
McpRequests ==
    {i \in 1..Len(requests) :
        requests[i].endpoint \in CheckEndpoints /\ requests[i].query # None}

\* the agent never ran for request r
NotInvoked(r) == r.result = "" /\ r.hours_data_str = ""

\* C11: run_mcp_query answers 503, without invoking the agent, when
\* agent_manager is None, and 500 when entering the run context or invoking
\* the agent raises; whatever it returns is the agent's own result with
\* source "mcp", never a text made up for a call that failed.
C11_ErrorsPropagate ==
    /\ [](\A i \in McpRequests :
            LET r == requests[i]
            IN  /\ agent_manager = None
                       => r.pc = "done" /\ Fails(r.reply, 503) /\ NotInvoked(r)
                /\ (r.pc = "done" /\ agent_manager # None)
                       => \/ Fails(r.reply, 500)
                          \/ r.result # "" /\ r.reply = [response |-> r.result, source |-> "mcp"])
    /\ [][\A i \in McpRequests :
            (requests[i].pc \in {"enter run", "invoke"} /\ requests'[i].pc # requests[i].pc)
                => \/ requests'[i].pc = "done" /\ Fails(requests'[i].reply, 500)
                   \/ requests'[i].pc \notin {"done", "enter run"}]_vars

\* C11 happens: with the manager set, one request failed in the run
\* context before the agent ran and another got the agent's result.
C11_Witness ==
    /\ agent_manager # None
    /\ \E i, j \in McpRequests :
           /\ requests[i].pc = "done" /\ Fails(requests[i].reply, 500)
           /\ NotInvoked(requests[i])
           /\ requests[j].pc = "done" /\ From(requests[j].reply, "mcp")

\* the question GET /check?item=x asks the agent
OrderQuestion(x) ==
    <<"C","a","n"," ","I"," ","o","r","d","e","r"," ","a"," ">> \o x \o <<"?">>

\* the text the direct responder gives for what each request asks
DirectTextOf ==
    [e \in CheckEndpoints, x \in McpTexts |->
        process_bakery_query(IF e = "GET /check" THEN OrderQuestion(x) ELSE x)]

DirectText(r) == DirectTextOf[r.endpoint, r.arg]

\* C12: with the manager set, once the agent has been invoked for a request
\* its result is the text of process_bakery_query, for the query of POST
\* /check and for "Can I order a X?" of GET /check?item=X, and that text is
\* returned with source "mcp" unless leaving the run context raises; for
\* item=bread it is the fresh-bread text.  What the agent's filesystem
\* server did makes no difference.
C12_AgentAnswersAsDirect ==
    \A i \in McpRequests :
        LET r == requests[i]
        IN  (agent_manager # None /\ r.result # "")
                => /\ r.pc \in {"exit run", "done"}
                   /\ r.result = DirectText(r)
                   /\ r.pc = "done" =>
                          \/ Fails(r.reply, 500)
                          \/ r.reply = [response |-> DirectText(r), source |-> "mcp"]
                   /\ (r.endpoint = "GET /check" /\ r.arg = <<"b","r","e","a","d">>)
                          => r.result = "Yes, we have fresh bread available daily until 5 PM."

\* C12 happens: GET /check?item=bagel was answered with source "mcp" by an
\* agent whose filesystem server had raised.
C12_Witness ==
    \E i \in McpRequests :
        /\ requests[i].endpoint = "GET /check"
        /\ requests[i].arg = <<"b","a","g","e","l">>
        /\ requests[i].pc = "done"
        /\ From(requests[i].reply, "mcp")
        /\ requests[i].hours_data_str = "Error accessing filesystem: {e_fs}"

----------------------------------------------------------------------------
(* Properties of the examples *)

WeekendQuestion ==
    <<"W","h","e","n"," ","a","r","e"," ","y","o","u"," ","o","p","e","n"," ","o","n"," ","w","e","e","k","e","n","d","s","?">>

Sunday == <<"S","u","n","d","a","y">>

MondayToSaturday ==
    << <<"M","o","n","d","a","y">>, <<"T","u","e","s","d","a","y">>,
       <<"W","e","d","n","e","s","d","a","y">>, <<"T","h","u","r","s","d","a","y">>,
       <<"F","r","i","d","a","y">>, <<"S","a","t","u","r","d","a","y">> >>

\* C14: with the built-in hours table, a query with a menu item whose day
\* is Sunday is answered "closed on Sunday" with the open days Monday,
\* Tuesday, Wednesday, Thursday, Friday, Saturday, in that order and
\* without Sunday.
C14_SundayClosedListsMonToSat ==
    LET items == ItemsIn(query)
        dayset == DaysIn(query)
    IN  (/\ hoursFile.state # "json"
         /\ items # {}
         /\ dayset # {}
         /\ days[Min(dayset)] = Sunday)
            => \A e \in CheckEndpoints :
                   Answered(e) =>
                       /\ SaysClosed(responses[e], Sunday, MondayToSaturday)
                       /\ Sunday \notin Range(responses[e].response.open_days)

\* C14 happens: with no hours file, GET /check has answered a query for
\* cake on Sunday.
C14_Witness ==
    /\ hoursFile.state = "missing"
    /\ Answered("GET /check")
    /\ ItemsIn(query) # {}
    /\ DaysIn(query) # {}
    /\ FirstDay(query) = Sunday
    /\ IsText(responses["GET /check"], Closed(<<>>, <<>>).fmt)

\* C15: a query with a menu item and no day is answered "item is on our
\* menu, please specify which day", whatever bakery_hours.json holds, a
\* file that is no hours table included: the answer is the same for every
\* file and says nothing of open or closed days.
C15_NoDayAsksForDay ==
    LET items == ItemsIn(query)
        item == check_menu_items[Min(items)]
    IN  (items # {} /\ DaysIn(query) = {})
            => \A e \in CheckEndpoints :
                   Answered(e) => responses[e] = ResponseBody(SpecifyDay(item))

\* C15 happens: POST /check has answered a query for cake with no day while
\* bakery_hours.json holds a number.
C15_Witness ==
    /\ hoursFile = [state |-> "json", value |-> [json |-> "number"]]
    /\ ItemsIn(query) # {}
    /\ DaysIn(query) = {}
    /\ Answered("POST /check")
    /\ IsText(responses["POST /check"], SpecifyDay(None).fmt)

----------------------------------------------------------------------------
(* Properties of concurrent requests and of the lifespan *)

McpEndpoints == {"POST /check", "GET /check", "GET /bakery-response"}

\* what each request is answered when it is the only one and nothing it
\* calls raises
AnswerAloneOf ==
    [e \in McpEndpoints, x \in McpTexts |->
        IF e = "GET /bakery-response"
        THEN [response |-> process_bakery_query(x), source |-> "direct"]
        ELSE IF e = "GET /check" /\ x = <<>>
        THEN HTTPException(400, "Missing 'item' query parameter")
        ELSE [response |-> process_bakery_query(IF e = "GET /check" THEN OrderQuestion(x) ELSE x),
              source |-> "mcp"]]

\* request r stands, with the manager as it is, where it would stand had
\* it been the only request: its result and its reply are those of its own
\* endpoint and argument, or the failure of one of its own calls
AsIfAlone(r) ==
    LET alone == AnswerAloneOf[r.endpoint, r.arg]
        agent == r.endpoint \in CheckEndpoints /\ ~Fails(alone, 400)
    IN  /\ r.result # "" => agent /\ r.result = alone.response
        /\ r.pc = "done" =>
               \/ r.reply = alone
               \/ agent /\ agent_manager = None /\ Fails(r.reply, 503)
               \/ agent /\ agent_manager # None /\ Fails(r.reply, 500)

\* C16: however the steps of the requests in flight interleave, each request
\* is answered as if it were alone, and a step of one request changes that
\* request only: not another request, not the manager, not the hours file.
C16_RequestsIndependent ==
    /\ [](\A i \in 1..Len(requests) : AsIfAlone(requests[i]))
    /\ [][requests' # requests =>
            /\ <<hoursFile, agent_manager, fast_agent, lifespan_pc>>' =
                   <<hoursFile, agent_manager, fast_agent, lifespan_pc>>
            /\ Len(requests') >= Len(requests)
            /\ \A i, j \in 1..Len(requests) :
                   (requests'[i] # requests[i] /\ j # i) => requests'[j] = requests[j]
            /\ Len(requests') > Len(requests) =>
                   SubSeq(requests', 1, Len(requests)) = requests]_vars

\* C16 happens: two requests with different questions were in flight
\* together; the later one has its answer from the agent while the earlier
\* one, invoked already, is still in the run context.
C16_Witness ==
    /\ Len(requests) >= 2
    /\ requests[1].endpoint = "POST /check" /\ requests[1].pc = "exit run"
    /\ requests[2].endpoint = "GET /check" /\ requests[2].pc = "done"
    /\ From(requests[2].reply, "mcp")
    /\ requests[1].result # requests[2].result

\* lifespan() handed over control from its except block: a step of its
\* setup raised
SetupHasFailed == lifespan_yield = "except"

\* C17: when a step of lifespan()'s setup raises, the application is handed
\* control all the same with agent_manager = None, and agent_manager stays
\* None from then on; every POST /check, and every GET /check with an item,
\* is answered 503 at once, and GET /bakery-response is answered by the
\* direct responder with source "direct".
C17_FailedSetupServesDirectOnly ==
    /\ [](SetupHasFailed =>
            /\ agent_manager = None
            /\ lifespan_pc \in {"yielded", "returned"}
            /\ \A i \in 1..Len(requests) :
                   LET r == requests[i]
                   IN  /\ r.pc = "done"
                       /\ (r.endpoint \in CheckEndpoints /\ r.arg # <<>>)
                              => Fails(r.reply, 503) /\ NotInvoked(r)
                       /\ r.endpoint = "GET /bakery-response"
                              => /\ From(r.reply, "direct")
                                 /\ r.reply = AnswerAloneOf[r.endpoint, r.arg])
    /\ [][/\ (~SetupHasFailed /\ SetupHasFailed')
                 => lifespan_pc' = "yielded" /\ agent_manager' = None
          /\ SetupHasFailed => SetupHasFailed' /\ agent_manager' = None]_vars

\* C17 happens: initialize() raised on the FastAgent that had been created;
\* since then POST /check was answered 503 and GET /bakery-response by the
\* direct responder.
C17_Witness ==
    /\ SetupHasFailed
    /\ fast_agent.created /\ ~fast_agent.initialized
    /\ \E i, j \in 1..Len(requests) :
           /\ requests[i].endpoint = "POST /check" /\ Fails(requests[i].reply, 503)
           /\ requests[j].endpoint = "GET /bakery-response"
           /\ From(requests[j].reply, "direct")

LifespanOver == lifespan_pc \in {"returned", "raised"}

\* C18: cleanup() is never called before shutdown; once lifespan() is over
\* it has been called exactly once if the yield of the try block was
\* reached and never otherwise, a FastAgent created before the failing step
\* included; lifespan() returns whether cleanup() raised or not; and from the
\* call of cleanup() on no request is received, in flight or answered.
C18_CleanupOnceAfterSetup ==
    /\ [](/\ ~LifespanOver => fast_agent.cleanup_calls = 0
          /\ LifespanOver =>
                 /\ lifespan_pc = "returned"
                 /\ fast_agent.cleanup_calls = (IF lifespan_yield = "try" THEN 1 ELSE 0)
                 /\ \A i \in 1..Len(requests) : requests[i].pc = "done")
    /\ [][(fast_agent'.cleanup_calls > 0 \/ LifespanOver) => requests' = requests]_vars

\* C18 happens: setup completed, the manager answered a request, and
\* lifespan() is over with cleanup() called once.
C18_Witness ==
    /\ LifespanOver
    /\ lifespan_yield = "try"
    /\ fast_agent.cleanup_calls = 1
    /\ \E i \in McpRequests : From(requests[i].reply, "mcp")
====
